---- MODULE Spec2Model ----
(***************************************************************************)
(* Settlement layer of functions/index.js: the payment webhook             *)
(* (paymentWebhook), the withdrawal callable (processWithdrawal) and the   *)
(* affiliation trigger (distributeCommissions), all acting on the users    *)
(* collection of one Firestore database.                                   *)
(*                                                                         *)
(* Money is a JavaScript number, an IEEE 754 double: sums, differences and *)
(* the products amount * 0.5, price * 0.20 and price * 0.05 are rounded to *)
(* 53 binary digits as the code's arithmetic rounds them.                  *)
(* Every await of a handler ends a step: a read of the store, a lookup at  *)
(* the gateway and an update are each a step of their own, and the steps   *)
(* of concurrent invocations interleave. A read or an update may be        *)
(* rejected by the store, a lookup by the gateway.                         *)
(***************************************************************************)
EXTENDS Integers, Sequences, FiniteSets, TLC

\* users: the users collection. commits: the writes it has committed. users0:
\* the collection as the behaviour starts. wd, hook, comm: the invocations of
\* processWithdrawal, paymentWebhook and distributeCommissions.
VARIABLES users, users0, commits, wd, hook, comm

vars == <<users, users0, commits, wd, hook, comm>>

\* Invocations of each handler that a behaviour may hold.
MaxCalls == 2

Calls == 1..MaxCalls

\* ----------------------------------------------------------------- numbers

\* A JavaScript number: an IEEE 754 double x that is a multiple of 2^-60 with
\* |x| < 2^30, held exactly as <<a, b, c>> with x = a + b / 2^30 + c / 2^60,
\* a an integer and b, c in 0 .. 2^30 - 1. Every whole number, and every sum,
\* difference and product by 0.5, 0.20 or 0.05 of such numbers, is of this kind.
Limb == 2 ^ 30

Num(n) == <<n, 0, 0>>

\* The carries of b and c taken into the limbs above them.
Norm(a, b, c) ==
  LET b2 == b + (c \div Limb)
  IN <<a + (b2 \div Limb), b2 % Limb, c % Limb>>

\* Exact sum, opposite, difference and order of two such values.
XAdd(x, y) == Norm(x[1] + y[1], x[2] + y[2], x[3] + y[3])

XNeg(x) == Norm(0 - x[1], 0 - x[2], 0 - x[3])

XSub(x, y) == XAdd(x, XNeg(y))

XLess(x, y) ==
  IF x[1] # y[1] THEN x[1] < y[1]
  ELSE IF x[2] # y[2] THEN x[2] < y[2]
  ELSE x[3] < y[3]

XLeq(x, y) == x = y \/ XLess(x, y)

\* n * b for a limb b and a natural n < 2^15, as <<carry, rest>> with
\* n * b = carry * 2^30 + rest (the product taken by halves of 15 digits, no
\* intermediate value reaching 2^31).
TimesLimb(n, b) ==
  LET Half == 2 ^ 15
      q == n * (b \div Half)
  IN <<q \div Half, (q % Half) * Half + n * (b % Half)>>

\* n * x, exact, for a natural n < 2^15.
XTimes(n, x) ==
  LET m == TimesLimb(n, x[2])
      l == TimesLimb(n, x[3])
  IN Norm(n * x[1] + m[1], m[2] + l[1], l[2])

\* The number of binary digits of a natural number.
BitLen[n \in Nat] == IF n = 0 THEN 0 ELSE 1 + BitLen[n \div 2]

\* n with its low s binary digits rounded away, to nearest and on a tie to
\* even; below says whether digits under n's own are set.
RoundDigits[n \in Nat, s \in Nat, below \in BOOLEAN] ==
  LET p == 2 ^ s
      q == n \div p
      r == n % p
      up == IF s = 0 THEN FALSE
            ELSE IF 2 * r > p THEN TRUE
            ELSE IF 2 * r < p THEN FALSE
            ELSE IF below THEN TRUE
            ELSE q % 2 = 1
  IN (IF up THEN q + 1 ELSE q) * p

\* A value x >= 0 with its s lowest binary digits, of the 60 after the point,
\* rounded away.
RoundAt[x \in Int \X Int \X Int, s \in Int] ==
  IF s <= 0 THEN x
  ELSE IF s < 30 THEN Norm(x[1], x[2], RoundDigits[x[3], s, FALSE])
  ELSE IF s = 30
    THEN Norm(x[1],
              x[2] + (IF 2 * x[3] > Limb THEN 1
                      ELSE IF 2 * x[3] < Limb THEN 0
                      ELSE x[2] % 2),
              0)
  ELSE Norm(x[1], RoundDigits[x[2], s - 30, x[3] # 0], 0)

\* The double nearest to a value x >= 0: 53 significant binary digits.
Round53(x) ==
  LET len == IF x[1] # 0 THEN 60 + BitLen[x[1]]
             ELSE IF x[2] # 0 THEN 30 + BitLen[x[2]]
             ELSE BitLen[x[3]]
  IN RoundAt[x, len - 53]

\* The double nearest to any value (a function, so that the value is computed
\* once and then rounded).
Round[x \in Int \X Int \X Int] ==
  IF x[1] < 0 THEN XNeg(Round53(XNeg(x))) ELSE Round53(x)

\* a + b of two numbers, and n * k of a whole number n >= 0 and a number k, as
\* JavaScript computes them.
FAdd(x, y) == Round[XAdd(x, y)]

FMul(n, k) == Round[XTimes(n, k)]

\* The literals 0.5, 0.20 and 0.05.
Point5 == <<0, 536870912, 0>>

\* The double 0.1
Point1 == <<0, 107374182, 429496736>>

Point20 == <<0, 214748364, 858993472>>

Point05 == <<0, 53687091, 214748368>>

\* Exact sum of the values f[x], x in S.
RECURSIVE XSum(_, _)
XSum(f, S) == IF S = {} THEN Num(0)
              ELSE LET x == CHOOSE y \in S : TRUE IN XAdd(f[x], XSum(f, S \ {x}))

\* ------------------------------------------------------------------ values

\* JavaScript's undefined / null: a missing field, a missing context.auth.
Undefined == "undefined"

UserIds == {"u1", "u2", "u3", "u4", "u5"}

\* !v for a string-valued field: undefined and "" are falsy.
Truthy(v) == v # Undefined /\ v # ""

\* A document of the users collection; exists is DocumentSnapshot.exists.
UserDoc(exists, balance, hasDeposited, referredBy, pixKey, pixFullName) ==
  [exists |-> exists, balance |-> balance, hasDeposited |-> hasDeposited,
   referredBy |-> referredBy, pixKey |-> pixKey, pixFullName |-> pixFullName,
   earningsLevel1 |-> Num(0), earningsLevel2 |-> Num(0)]

NoDoc == UserDoc(FALSE, Num(0), FALSE, Undefined, Undefined, Undefined)

\* FieldValue.increment(n) applied to the stored number v.
Increment(v, n) == FAdd(v, n)

\* An invocation that has not been made yet. pre and post are the users
\* collection when the invocation read it first and when it ended, c0 and c1
\* the number of writes the collection had committed at those two moments (an
\* invocation that ended before it read the collection has none of the four),
\* and own the number of writes the invocation made itself.
\* fault names the call the store rejected ("read" or "update").
IdleCall ==
  [pc |-> "idle", auth |-> Undefined, given |-> FALSE, amount |-> 0,
   code |-> "", message |-> "", fault |-> "", pre |-> <<>>, post |-> <<>>,
   c0 |-> 0, c1 |-> 0, own |-> 0]

\* lookups counts the calls of payment.get; fault names the call that rejected
\* ("lookup", "read" or "update").
IdleDelivery ==
  [pc |-> "idle", topic |-> "", id |-> "", status |-> 0, body |-> "",
   lookups |-> 0, fault |-> "", uid |-> Undefined, amount |-> 0,
   bonus |-> Num(0), totalAmount |-> Num(0),
   pre |-> <<>>, post |-> <<>>, c0 |-> 0, c1 |-> 0, own |-> 0]

\* hops counts the referredBy fields read; error is the catch block's log line;
\* threw is the trigger rejecting (a read outside the try was rejected); fault
\* names the call the store rejected though its document exists ("product",
\* "user", "level1", "referrer" or "level2").
IdleEvent ==
  [pc |-> "idle", hops |-> 0, fault |-> "", threw |-> FALSE,
   userId |-> Undefined, productId |-> "", productPrice |-> 0,
   referrerId |-> Undefined, grandReferrerId |-> Undefined,
   commissionL1 |-> Num(0), commissionL2 |-> Num(0),
   paidL1 |-> FALSE, paidL2 |-> FALSE, error |-> FALSE,
   pre |-> <<>>, post |-> <<>>, c0 |-> 0, c1 |-> 0, own |-> 0]

\* No other invocation's write was committed between the invocation's first read
\* of the collection and its end: it ran in isolation.
Isolated(c) == c.c1 - c.c0 = c.own

\* Invocations are made in the order of their index (the index only names them).
InOrder(slots, i) == IF i = 1 THEN TRUE ELSE slots[i - 1].pc # "idle"

\* ------------------------------------------------------- processWithdrawal

MinWithdrawal == 30

MaxWithdrawal == 5000

HttpsError(code, message) == [code |-> code, message |-> message]

\* The rejection of a store call, thrown on as it is: not an HttpsError.
StoreError == [code |-> "store-error", message |-> "UNAVAILABLE"]

Success ==
  [code |-> "ok",
   message |-> "Pedido de levantamento processado! (Transferencia PIX simulada)"]

PixIncomplete ==
  "Dados PIX incompletos. Registe o nome completo e a chave PIX no seu perfil."

\* userDoc.data().balance || 0: a document's balance is a number here, and a
\* missing balance field is the balance 0.
CurrentBalance(doc) == doc.balance

\* !amount || amount < 30 || amount > 5000
InvalidAmount(given, amount) ==
  ~given \/ amount = 0 \/ amount < MinWithdrawal \/ amount > MaxWithdrawal

\* WithdrawalChecks refusing a withdrawal of the whole balance.
WithdrawalChecksWholeBalance(auth, given, amount, ledger) ==
  IF auth = Undefined
    THEN HttpsError("unauthenticated", "E necessario estar autenticado.")
  ELSE IF InvalidAmount(given, amount)
    THEN HttpsError("invalid-argument", "Valor de levantamento invalido.")
  ELSE IF ~ledger[auth].exists
    THEN HttpsError("not-found", "Utilizador nao encontrado.")
  ELSE IF ~Truthy(ledger[auth].pixKey) \/ ~Truthy(ledger[auth].pixFullName)
    THEN HttpsError("failed-precondition", PixIncomplete)
  ELSE IF XLeq(CurrentBalance(ledger[auth]), Num(amount))
    THEN HttpsError("failed-precondition", "Saldo insuficiente.")
  ELSE Success

\* WithdrawalChecks with the bounds exclusive, and the balance checked before
\* the payout profile.
WithdrawalChecksExclusive(auth, given, amount, ledger) ==
  IF auth = Undefined
    THEN HttpsError("unauthenticated", "E necessario estar autenticado.")
  ELSE IF ~given \/ amount = 0 \/ amount <= MinWithdrawal \/ amount >= MaxWithdrawal
    THEN HttpsError("invalid-argument", "Valor de levantamento invalido.")
  ELSE IF ~ledger[auth].exists
    THEN HttpsError("not-found", "Utilizador nao encontrado.")
  ELSE IF XLess(CurrentBalance(ledger[auth]), Num(amount))
    THEN HttpsError("failed-precondition", "Saldo insuficiente.")
  ELSE IF ~Truthy(ledger[auth].pixKey) \/ ~Truthy(ledger[auth].pixFullName)
    THEN HttpsError("failed-precondition", PixIncomplete)
  ELSE Success

\* The checks of processWithdrawal in their order, on the data of the request
\* and the document read: the error thrown, or Success.
WithdrawalChecks(auth, given, amount, ledger) ==
  IF auth = Undefined
    THEN HttpsError("unauthenticated", "E necessario estar autenticado.")
  ELSE IF InvalidAmount(given, amount)
    THEN HttpsError("invalid-argument", "Valor de levantamento invalido.")
  ELSE IF ~ledger[auth].exists
    THEN HttpsError("not-found", "Utilizador nao encontrado.")
  ELSE IF ~Truthy(ledger[auth].pixKey) \/ ~Truthy(ledger[auth].pixFullName)
    THEN HttpsError("failed-precondition", PixIncomplete)
  ELSE IF XLess(CurrentBalance(ledger[auth]), Num(amount))
    THEN HttpsError("failed-precondition", "Saldo insuficiente.")
  ELSE Success

\* userRef.update({balance: FieldValue.increment(-amount)})
DebitBalance(ledger, uid, amount) ==
  [ledger EXCEPT ![uid].balance = Increment(@, XNeg(Num(amount)))]

\* The call up to its update: context.auth, data.amount, userRef.get() and the
\* checks on the document read. A failed check throws and ends the call.
\* readFails is the store rejecting userRef.get(): nothing catches it, and the
\* call rejects with the store's error.
WithdrawalRequest(i, auth, given, amount, readFails) ==
  /\ wd[i].pc = "idle"
  /\ InOrder(wd, i)
  /\ LET reads == auth # Undefined /\ ~InvalidAmount(given, amount)
         r == IF reads /\ readFails THEN StoreError
              ELSE WithdrawalChecks(auth, given, amount, users)
     IN wd' = [wd EXCEPT ![i] =
                 [@ EXCEPT !.pc = IF r.code = "ok" THEN "debit" ELSE "done",
                           !.auth = auth, !.given = given, !.amount = amount,
                           !.code = r.code, !.message = r.message,
                           !.fault = IF reads /\ readFails THEN "read" ELSE "",
                           !.pre = IF reads THEN users ELSE @,
                           !.post = IF reads /\ r.code # "ok" THEN users ELSE @,
                           !.c0 = IF reads THEN commits ELSE @,
                           !.c1 = IF reads /\ r.code # "ok" THEN commits ELSE @]]
  /\ UNCHANGED <<users, users0, commits, hook, comm>>

\* The debit and the return that follows it: the payout is a console.log.
\* updateFails is the store rejecting the update: nothing catches it, the call
\* rejects with the store's error and the balance is as it was.
WithdrawalDebit(i, updateFails) ==
  /\ wd[i].pc = "debit"
  /\ IF updateFails
       THEN /\ wd' = [wd EXCEPT ![i] =
                       [@ EXCEPT !.pc = "done", !.code = StoreError.code,
                                 !.message = StoreError.message,
                                 !.fault = "update",
                                 !.post = users, !.c1 = commits]]
            /\ UNCHANGED <<users, commits>>
       ELSE /\ users' = DebitBalance(users, wd[i].auth, wd[i].amount)
            /\ commits' = commits + 1
            /\ wd' = [wd EXCEPT ![i] = [@ EXCEPT !.pc = "done", !.post = users',
                                                 !.c1 = commits', !.own = 1]]
  /\ UNCHANGED <<users0, hook, comm>>

\* ---------------------------------------------------------- paymentWebhook

BonusThreshold == 200

\* The payment gateway's orders, as mercadopago.payment.get(id) returns them
\* (payment.body); an id outside the table makes the lookup throw.
Payments ==
  [p1 |-> [status |-> "approved", external_reference |-> "u1", transaction_amount |-> 40],
   p2 |-> [status |-> "approved", external_reference |-> "u1", transaction_amount |-> 199],
   p3 |-> [status |-> "approved", external_reference |-> "u1", transaction_amount |-> 200],
   p4 |-> [status |-> "approved", external_reference |-> "u1", transaction_amount |-> 5000],
   p5 |-> [status |-> "pending", external_reference |-> "u1", transaction_amount |-> 300],
   p6 |-> [status |-> "approved", external_reference |-> "u5", transaction_amount |-> 300],
   p7 |-> [status |-> "approved", external_reference |-> "u2", transaction_amount |-> 201]]

PaymentIds == DOMAIN Payments

\* Bonus with the threshold exclusive.
BonusAboveThreshold(userData, amount) ==
  IF ~userData.hasDeposited /\ amount > BonusThreshold
    THEN FMul(amount, Point5)
    ELSE Num(0)

\* let bonus = 0; if (!userData.hasDeposited && amount >= 200) bonus = amount * 0.5
Bonus(userData, amount) ==
  IF ~userData.hasDeposited /\ amount >= BonusThreshold
    THEN FMul(amount, Point5)
    ELSE Num(0)

\* const totalAmount = amount + bonus
TotalAmount(amount, bonus) == FAdd(Num(amount), bonus)

\* userRef.update({balance: FieldValue.increment(totalAmount), hasDeposited: true})
CreditDeposit(ledger, uid, totalAmount) ==
  [ledger EXCEPT ![uid].balance = Increment(@, totalAmount),
                 ![uid].hasDeposited = TRUE]

Respond(d, status, body) == [d EXCEPT !.pc = "done", !.status = status, !.body = body]

\* WebhookRequest going on with every order that is not rejected.
WebhookRequestNotRejected(i, topic, id, lookupFails) ==
  /\ hook[i].pc = "idle"
  /\ InOrder(hook, i)
  /\ LET d == [hook[i] EXCEPT !.topic = topic, !.id = id]
     IN hook' = [hook EXCEPT ![i] =
          IF topic # "payment" THEN Respond(d, 200, "Not a payment topic")
          ELSE IF lookupFails \/ id \notin PaymentIds
            THEN Respond([d EXCEPT !.lookups = 1, !.fault = "lookup"],
                         500, "Erro ao processar o webhook.")
          ELSE LET payment == Payments[id]
               IN IF payment.status = "rejected"
                    THEN Respond([d EXCEPT !.lookups = 1], 200, "OK")
                    ELSE [d EXCEPT !.pc = "read", !.lookups = 1,
                                   !.uid = payment.external_reference,
                                   !.amount = payment.transaction_amount]]
  /\ UNCHANGED <<users, users0, commits, wd, comm>>

\* The request up to the end of the gateway lookup: the topic check and
\* payment.get. lookupFails is the lookup rejecting (also for a known id).
WebhookRequest(i, topic, id, lookupFails) ==
  /\ hook[i].pc = "idle"
  /\ InOrder(hook, i)
  /\ LET d == [hook[i] EXCEPT !.topic = topic, !.id = id]
     IN hook' = [hook EXCEPT ![i] =
          IF topic # "payment" THEN Respond(d, 200, "Not a payment topic")
          ELSE IF lookupFails \/ id \notin PaymentIds
            THEN Respond([d EXCEPT !.lookups = 1, !.fault = "lookup"],
                         500, "Erro ao processar o webhook.")
          ELSE LET payment == Payments[id]
               IN IF payment.status # "approved"
                    THEN Respond([d EXCEPT !.lookups = 1], 200, "OK")
                    ELSE [d EXCEPT !.pc = "read", !.lookups = 1,
                                   !.uid = payment.external_reference,
                                   !.amount = payment.transaction_amount]]
  /\ UNCHANGED <<users, users0, commits, wd, comm>>

\* userRef.get() of an approved order's user, and the bonus decided on the
\* document read. readFails is the store rejecting the read: the catch answers
\* 500.
WebhookRead(i, readFails) ==
  /\ hook[i].pc = "read"
  /\ LET d == [hook[i] EXCEPT !.pre = users, !.c0 = commits]
         last == [d EXCEPT !.post = users, !.c1 = commits]
         uid == d.uid
     IN hook' = [hook EXCEPT ![i] =
          IF readFails
            THEN Respond([last EXCEPT !.fault = "read"], 500, "Erro ao processar o webhook.")
          ELSE IF ~users[uid].exists THEN Respond(last, 200, "OK")
          ELSE [d EXCEPT !.pc = "update",
                         !.bonus = Bonus(users[uid], d.amount),
                         !.totalAmount = TotalAmount(d.amount, Bonus(users[uid], d.amount))]]
  /\ UNCHANGED <<users, users0, commits, wd, comm>>

\* WebhookUpdate without the await: a rejected update is not caught, and the
\* response is the acknowledgement.
WebhookUpdateNotAwaited(i, updateFails) ==
  /\ hook[i].pc = "update"
  /\ IF updateFails
       THEN /\ hook' = [hook EXCEPT ![i] =
                         Respond([@ EXCEPT !.post = users, !.c1 = commits,
                                           !.fault = "update"],
                                 200, "OK")]
            /\ UNCHANGED <<users, commits>>
       ELSE /\ users' = CreditDeposit(users, hook[i].uid, hook[i].totalAmount)
            /\ commits' = commits + 1
            /\ hook' = [hook EXCEPT ![i] =
                         Respond([@ EXCEPT !.post = users', !.c1 = commits', !.own = 1],
                                 200, "OK")]
  /\ UNCHANGED <<users0, wd, comm>>

\* WebhookUpdate writing the balance it read plus the amount (a read followed
\* by a set) instead of an atomic increment.
WebhookUpdateReadModifyWrite(i, updateFails) ==
  /\ hook[i].pc = "update"
  /\ IF updateFails
       THEN /\ hook' = [hook EXCEPT ![i] =
                         Respond([@ EXCEPT !.post = users, !.c1 = commits,
                                           !.fault = "update"],
                                 500, "Erro ao processar o webhook.")]
            /\ UNCHANGED <<users, commits>>
       ELSE /\ users' = [users EXCEPT
                           ![hook[i].uid].balance =
                              FAdd(hook[i].pre[hook[i].uid].balance, hook[i].totalAmount),
                           ![hook[i].uid].hasDeposited = TRUE]
            /\ commits' = commits + 1
            /\ hook' = [hook EXCEPT ![i] =
                         Respond([@ EXCEPT !.post = users', !.c1 = commits', !.own = 1],
                                 200, "OK")]
  /\ UNCHANGED <<users0, wd, comm>>

\* await userRef.update(...) and the response; a rejected update is caught and
\* answered with 500, the document as it was.
WebhookUpdate(i, updateFails) ==
  /\ hook[i].pc = "update"
  /\ IF updateFails
       THEN /\ hook' = [hook EXCEPT ![i] =
                         Respond([@ EXCEPT !.post = users, !.c1 = commits,
                                           !.fault = "update"],
                                 500, "Erro ao processar o webhook.")]
            /\ UNCHANGED <<users, commits>>
       ELSE /\ users' = CreditDeposit(users, hook[i].uid, hook[i].totalAmount)
            /\ commits' = commits + 1
            /\ hook' = [hook EXCEPT ![i] =
                         Respond([@ EXCEPT !.post = users', !.c1 = commits', !.own = 1],
                                 200, "OK")]
  /\ UNCHANGED <<users0, wd, comm>>

\* --------------------------------------------------- distributeCommissions

\* The products collection; an id outside the table has no document.
Products == [g1 |-> [price |-> 1000], g2 |-> [price |-> 3]]

ProductIds == DOMAIN Products

\* productPrice * 0.20, of a whole price
CommissionL1(productPrice) == FMul(productPrice, Point20)

\* productPrice * 0.05, of a whole price
CommissionL2(productPrice) == FMul(productPrice, Point05)

\* CreditLevel1 without the earnings counter.
CreditLevel1BalanceOnly(ledger, uid, c) ==
  [ledger EXCEPT ![uid].balance = Increment(@, c)]

\* CreditLevel2 paying the same commission one more level up.
CreditLevel2Cascade(ledger, uid, c) ==
  LET up == ledger[uid].referredBy
      paid == [ledger EXCEPT ![uid].balance = Increment(@, c),
                             ![uid].earningsLevel2 = Increment(@, c)]
  IN IF up \in UserIds /\ up # uid /\ ledger[up].exists
       THEN [paid EXCEPT ![up].balance = Increment(@, c),
                         ![up].earningsLevel2 = Increment(@, c)]
       ELSE paid

\* CreditLevel2 recording the commission in the level-1 counter.
CreditLevel2WrongCounter(ledger, uid, c) ==
  [ledger EXCEPT ![uid].balance = Increment(@, c),
                 ![uid].earningsLevel1 = Increment(@, c)]

\* referrerRef.update({balance: increment(c), earningsLevel1: increment(c)})
CreditLevel1(ledger, uid, c) ==
  [ledger EXCEPT ![uid].balance = Increment(@, c),
                 ![uid].earningsLevel1 = Increment(@, c)]

\* grandReferrerRef.update({balance: increment(c), earningsLevel2: increment(c)})
CreditLevel2(ledger, uid, c) ==
  [ledger EXCEPT ![uid].balance = Increment(@, c),
                 ![uid].earningsLevel2 = Increment(@, c)]

\* return null
Return(e) == [e EXCEPT !.pc = "done"]

\* A rejected read outside the try block: the trigger rejects.
Throw(e, call) == [e EXCEPT !.pc = "done", !.threw = TRUE, !.fault = call]

\* The catch block: the error is logged, and the trigger returns null.
Catch(e, call) == [e EXCEPT !.pc = "done", !.error = TRUE, !.fault = call]

\* The trigger up to the end of productRef.get(): a product without a document
\* ends it. readFails is the store rejecting the read.
CommissionProduct(i, userId, productId, readFails) ==
  /\ comm[i].pc = "idle"
  /\ InOrder(comm, i)
  /\ LET e == [comm[i] EXCEPT !.userId = userId, !.productId = productId]
     IN comm' = [comm EXCEPT ![i] =
          IF readFails THEN Throw(e, "product")
          ELSE IF productId \notin ProductIds THEN Return(e)
          ELSE [e EXCEPT !.pc = "user", !.productPrice = Products[productId].price]]
  /\ UNCHANGED <<users, users0, commits, wd, hook>>

\* CommissionUser without the check of the referrer: an affiliating user
\* without a referrer reaches the try block, whose catch logs an error.
CommissionUserNoReferrerCheck(i, readFails) ==
  /\ comm[i].pc = "user"
  /\ LET e == [comm[i] EXCEPT !.pre = users, !.c0 = commits]
         last == [e EXCEPT !.post = users, !.c1 = commits]
         userDoc == users[e.userId]
     IN comm' = [comm EXCEPT ![i] =
          IF readFails THEN Throw(last, "user")
          ELSE IF ~userDoc.exists THEN Return(last)
          ELSE IF ~Truthy(userDoc.referredBy) THEN Catch([last EXCEPT !.hops = 1], "")
          ELSE [e EXCEPT !.pc = "level1", !.hops = 1,
                         !.referrerId = userDoc.referredBy,
                         !.commissionL1 = CommissionL1(e.productPrice)]]
  /\ UNCHANGED <<users, users0, commits, wd, hook>>

\* userRef.get() of the affiliating user and the referrer found on it: a user
\* without a document, or without a referrer, ends the trigger. readFails is
\* the store rejecting the read.
CommissionUser(i, readFails) ==
  /\ comm[i].pc = "user"
  /\ LET e == [comm[i] EXCEPT !.pre = users, !.c0 = commits]
         last == [e EXCEPT !.post = users, !.c1 = commits]
         userDoc == users[e.userId]
     IN comm' = [comm EXCEPT ![i] =
          IF readFails THEN Throw(last, "user")
          ELSE IF ~userDoc.exists THEN Return(last)
          ELSE IF ~Truthy(userDoc.referredBy) THEN Return([last EXCEPT !.hops = 1])
          ELSE [e EXCEPT !.pc = "level1", !.hops = 1,
                         !.referrerId = userDoc.referredBy,
                         !.commissionL1 = CommissionL1(e.productPrice)]]
  /\ UNCHANGED <<users, users0, commits, wd, hook>>

\* CommissionLevel1 with a try block of its own around the level-1 update: a
\* rejected update is logged and the trigger goes on to level 2.
CommissionLevel1OwnTry(i, updateFails) ==
  /\ comm[i].pc = "level1"
  /\ LET e == comm[i]
     IN IF ~users[e.referrerId].exists \/ updateFails
          THEN /\ comm' = [comm EXCEPT ![i] =
                            [e EXCEPT !.pc = "referrer", !.error = TRUE,
                                      !.fault = IF users[e.referrerId].exists
                                                  THEN "level1" ELSE ""]]
               /\ UNCHANGED <<users, commits>>
          ELSE /\ users' = CreditLevel1(users, e.referrerId, e.commissionL1)
               /\ commits' = commits + 1
               /\ comm' = [comm EXCEPT ![i] =
                            [e EXCEPT !.pc = "referrer", !.paidL1 = TRUE, !.own = 1]]
  /\ UNCHANGED <<users0, wd, hook>>

\* The level-1 update and its log line. update() of a document that does not
\* exist rejects; the catch logs the error and the trigger returns null.
\* updateFails is the store rejecting the update of a document that exists.
CommissionLevel1(i, updateFails) ==
  /\ comm[i].pc = "level1"
  /\ LET e == comm[i]
     IN IF ~users[e.referrerId].exists \/ updateFails
          THEN /\ comm' = [comm EXCEPT ![i] =
                            Catch([e EXCEPT !.post = users, !.c1 = commits],
                                  IF users[e.referrerId].exists THEN "level1" ELSE "")]
               /\ UNCHANGED <<users, commits>>
          ELSE /\ users' = CreditLevel1(users, e.referrerId, e.commissionL1)
               /\ commits' = commits + 1
               /\ comm' = [comm EXCEPT ![i] =
                            [e EXCEPT !.pc = "referrer", !.paidL1 = TRUE, !.own = 1]]
  /\ UNCHANGED <<users0, wd, hook>>

\* referrerRef.get() and the referrer's own referrer found on it: a referrer
\* without a document, or without a referrer, ends the trigger. readFails is
\* the store rejecting the read, inside the try.
CommissionReferrer(i, readFails) ==
  /\ comm[i].pc = "referrer"
  /\ LET e == comm[i]
         last == [e EXCEPT !.post = users, !.c1 = commits]
         referrerDoc == users[e.referrerId]
     IN comm' = [comm EXCEPT ![i] =
          IF readFails THEN Catch(last, "referrer")
          ELSE IF ~referrerDoc.exists THEN Return(last)
          ELSE IF ~Truthy(referrerDoc.referredBy) THEN Return([last EXCEPT !.hops = 2])
          ELSE [e EXCEPT !.pc = "level2", !.hops = 2,
                         !.grandReferrerId = referrerDoc.referredBy,
                         !.commissionL2 = CommissionL2(e.productPrice)]]
  /\ UNCHANGED <<users, users0, commits, wd, hook>>

\* CommissionLevel2 with both levels in one transaction: a failed level-2 update
\* takes the level-1 credit back.
CommissionLevel2Rollback(i, updateFails) ==
  /\ comm[i].pc = "level2"
  /\ LET e == comm[i]
     IN IF ~users[e.grandReferrerId].exists \/ updateFails
          THEN /\ users' = CreditLevel1(users, e.referrerId, XNeg(e.commissionL1))
               /\ commits' = commits + 1
               /\ comm' = [comm EXCEPT ![i] =
                            Catch([e EXCEPT !.post = users', !.c1 = commits'],
                                  IF users[e.grandReferrerId].exists
                                    THEN "level2" ELSE "")]
          ELSE /\ users' = CreditLevel2(users, e.grandReferrerId, e.commissionL2)
               /\ commits' = commits + 1
               /\ comm' = [comm EXCEPT ![i] =
                            Return([e EXCEPT !.paidL2 = TRUE, !.own = e.own + 1,
                                             !.post = users', !.c1 = commits'])]
  /\ UNCHANGED <<users0, wd, hook>>

\* CommissionLevel2 as a loop up the referral chain: after a credit the trigger
\* goes on from the user it has just paid.
CommissionLevel2Climb(i, updateFails) ==
  /\ comm[i].pc = "level2"
  /\ LET e == comm[i]
     IN IF ~users[e.grandReferrerId].exists \/ updateFails
          THEN /\ comm' = [comm EXCEPT ![i] =
                            Catch([e EXCEPT !.post = users, !.c1 = commits],
                                  IF users[e.grandReferrerId].exists
                                    THEN "level2" ELSE "")]
               /\ UNCHANGED <<users, commits>>
          ELSE /\ users' = CreditLevel2(users, e.grandReferrerId, e.commissionL2)
               /\ commits' = commits + 1
               /\ comm' = [comm EXCEPT ![i] =
                            [e EXCEPT !.pc = "level2",
                                      !.referrerId = e.grandReferrerId,
                                      !.grandReferrerId =
                                         IF Truthy(users[e.grandReferrerId].referredBy)
                                           THEN users[e.grandReferrerId].referredBy
                                           ELSE e.grandReferrerId,
                                      !.hops = e.hops + 1,
                                      !.paidL2 = TRUE, !.own = e.own + 1]]
  /\ UNCHANGED <<users0, wd, hook>>

\* CommissionLevel2 writing with set(..., {merge: true}) instead of update():
\* the write to an id without a document creates the document.
CommissionLevel2Upsert(i, updateFails) ==
  /\ comm[i].pc = "level2"
  /\ LET e == comm[i]
     IN IF updateFails
          THEN /\ comm' = [comm EXCEPT ![i] =
                            Catch([e EXCEPT !.post = users, !.c1 = commits], "level2")]
               /\ UNCHANGED <<users, commits>>
          ELSE /\ users' = CreditLevel2([users EXCEPT ![e.grandReferrerId].exists = TRUE],
                                        e.grandReferrerId, e.commissionL2)
               /\ commits' = commits + 1
               /\ comm' = [comm EXCEPT ![i] =
                            Return([e EXCEPT !.paidL2 = TRUE, !.own = e.own + 1,
                                             !.post = users', !.c1 = commits'])]
  /\ UNCHANGED <<users0, wd, hook>>

\* The level-2 update, its log line and the return, with the same catch.
CommissionLevel2(i, updateFails) ==
  /\ comm[i].pc = "level2"
  /\ LET e == comm[i]
     IN IF ~users[e.grandReferrerId].exists \/ updateFails
          THEN /\ comm' = [comm EXCEPT ![i] =
                            Catch([e EXCEPT !.post = users, !.c1 = commits],
                                  IF users[e.grandReferrerId].exists
                                    THEN "level2" ELSE "")]
               /\ UNCHANGED <<users, commits>>
          ELSE /\ users' = CreditLevel2(users, e.grandReferrerId, e.commissionL2)
               /\ commits' = commits + 1
               /\ comm' = [comm EXCEPT ![i] =
                            Return([e EXCEPT !.paidL2 = TRUE, !.own = e.own + 1,
                                             !.post = users', !.c1 = commits'])]
  /\ UNCHANGED <<users0, wd, hook>>

\* ------------------------------------------------------------- withdrawals

AuthInputs == {Undefined, "u1", "u2", "u5"}

AmountInputs == {0, 29, 30, 50, 5000, 5001}

\* pixKey and pixFullName of u1.
PixInputs == {<<"pix", "Nome">>, <<Undefined, "Nome">>, <<"pix", "">>}

\* The doubles 0, 30, 50.1 and 5000.
BalanceInputs == {Num(0), Num(30), <<50, 107374182, 429498368>>, Num(5000)}

InitWithdrawal ==
  /\ \E b \in BalanceInputs, p \in PixInputs :
       users = [u \in UserIds |->
                  IF u = "u1" THEN UserDoc(TRUE, b, FALSE, Undefined, p[1], p[2])
                  ELSE IF u = "u2" THEN UserDoc(TRUE, Num(100), TRUE, "u1", "pix", "")
                  ELSE NoDoc]
  /\ users0 = users
  /\ commits = 0
  /\ wd = [i \in Calls |-> IdleCall]
  /\ hook = [i \in Calls |-> IdleDelivery]
  /\ comm = [i \in Calls |-> IdleEvent]

NextWithdrawal ==
  \E i \in Calls :
    \/ \E auth \in AuthInputs, amount \in AmountInputs, readFails \in BOOLEAN :
         WithdrawalRequest(i, auth, TRUE, amount, readFails)
    \/ \E auth \in AuthInputs, readFails \in BOOLEAN :
         WithdrawalRequest(i, auth, FALSE, 0, readFails)
    \/ \E updateFails \in BOOLEAN : WithdrawalDebit(i, updateFails)

SpecWithdrawal == InitWithdrawal /\ [][NextWithdrawal]_vars

\* ---------------------------------------------------------------- deposits

TopicInputs == {"payment", "merchant_order"}

PaymentIdInputs == PaymentIds \cup {"p0"}

\* The balance of u1 is the double 0 or 0.1.
InitDeposit ==
  /\ \E b \in {Num(0), Point1}, h \in BOOLEAN :
       users = [u \in UserIds |->
                  IF u = "u1" THEN UserDoc(TRUE, b, h, Undefined, "pix", "Nome")
                  ELSE IF u = "u2"
                    THEN UserDoc(TRUE, Num(0), FALSE, "u1", Undefined, Undefined)
                  ELSE NoDoc]
  /\ users0 = users
  /\ commits = 0
  /\ wd = [i \in Calls |-> IdleCall]
  /\ hook = [i \in Calls |-> IdleDelivery]
  /\ comm = [i \in Calls |-> IdleEvent]

NextDeposit ==
  \E i \in Calls :
    \/ \E topic \in TopicInputs, id \in PaymentIdInputs, lookupFails \in BOOLEAN :
         WebhookRequest(i, topic, id, lookupFails)
    \/ \E readFails \in BOOLEAN : WebhookRead(i, readFails)
    \/ \E updateFails \in BOOLEAN : WebhookUpdate(i, updateFails)

SpecDeposit == InitDeposit /\ [][NextDeposit]_vars

\* ------------------------------------------------------------- commissions

\* referredBy of every user document; a user missing from a graph has no document.
\* Chain: u1 -> u2 -> u3 -> u4. Dangling: u1 -> u2 -> u5 and u3 -> u5, u5 without
\* a document. Cyclic: u1 -> u1, u2 -> u3 -> u2, u4 without a document.
ReferralGraphs ==
  { [u1 |-> "u2", u2 |-> "u3", u3 |-> "u4", u4 |-> Undefined],
    [u1 |-> "u2", u2 |-> "u5", u3 |-> "u5", u4 |-> ""],
    [u1 |-> "u1", u2 |-> "u3", u3 |-> "u2"] }

\* The affiliations made, as <<userId, productId>>; g0 is a product without a
\* document.
AffiliationInputs == {<<"u1", "g2">>, <<"u3", "g1">>, <<"u4", "g2">>, <<"u1", "g0">>}

\* The balances of u1 and u3 are 0, those of u2 and u4 the double 0.1.
InitCommission ==
  /\ \E g \in ReferralGraphs :
       users = [u \in UserIds |->
                  IF u \in DOMAIN g
                    THEN UserDoc(TRUE, IF u \in {"u1", "u3"} THEN Num(0) ELSE Point1,
                                 FALSE, g[u], "pix", "Nome")
                  ELSE NoDoc]
  /\ users0 = users
  /\ commits = 0
  /\ wd = [i \in Calls |-> IdleCall]
  /\ hook = [i \in Calls |-> IdleDelivery]
  /\ comm = [i \in Calls |-> IdleEvent]

NextCommission ==
  \E i \in Calls :
    \/ \E a \in AffiliationInputs, readFails \in BOOLEAN :
         CommissionProduct(i, a[1], a[2], readFails)
    \/ \E readFails \in BOOLEAN : CommissionUser(i, readFails)
    \/ \E updateFails \in BOOLEAN : CommissionLevel1(i, updateFails)
    \/ \E readFails \in BOOLEAN : CommissionReferrer(i, readFails)
    \/ \E updateFails \in BOOLEAN : CommissionLevel2(i, updateFails)

SpecCommission == InitCommission /\ [][NextCommission]_vars

\* The steps of event i after its first: at most one is enabled at a time.
CommissionResumes(i) ==
  \/ \E readFails \in BOOLEAN : CommissionUser(i, readFails)
  \/ \E updateFails \in BOOLEAN : CommissionLevel1(i, updateFails)
  \/ \E readFails \in BOOLEAN : CommissionReferrer(i, readFails)
  \/ \E updateFails \in BOOLEAN : CommissionLevel2(i, updateFails)

\* The runtime resumes an async handler once the promise it awaits settles: an
\* event that has started goes on with each of its steps.
FairCommission == SpecCommission /\ \A i \in Calls : WF_vars(CommissionResumes(i))

\* ------------------------------------------------------------ all handlers

\* The three handlers on one collection: u1, with the balance 50.1, withdraws,
\* receives the deposits of its orders, and earns commissions as the referrer
\* of u2 and the grand-referrer of u3.
InitLedger ==
  /\ \E h \in BOOLEAN :
       users = [u \in UserIds |->
                  IF u = "u1"
                    THEN UserDoc(TRUE, <<50, 107374182, 429498368>>, h,
                                 Undefined, "pix", "Nome")
                  ELSE IF u = "u2"
                    THEN UserDoc(TRUE, Num(0), FALSE, "u1", Undefined, Undefined)
                  ELSE IF u = "u3"
                    THEN UserDoc(TRUE, Num(0), FALSE, "u2", Undefined, Undefined)
                  ELSE NoDoc]
  /\ users0 = users
  /\ commits = 0
  /\ wd = [i \in Calls |-> IdleCall]
  /\ hook = [i \in Calls |-> IdleDelivery]
  /\ comm = [i \in Calls |-> IdleEvent]

\* Invocations of all handlers together when the three run on one collection.
MaxInvocations == 3

Started ==
  Cardinality({i \in Calls : wd[i].pc # "idle"})
    + Cardinality({i \in Calls : hook[i].pc # "idle"})
    + Cardinality({i \in Calls : comm[i].pc # "idle"})

\* The orders notified so far: the notifications of SpecLedger are of distinct
\* orders.
Notified == {hook[i].id : i \in {j \in Calls : hook[j].pc # "idle"}}

\* The users affiliated so far: in SpecLedger a user affiliates to the product
\* once.
Affiliated == {comm[i].userId : i \in {j \in Calls : comm[j].pc # "idle"}}

NextLedger ==
  \E i \in Calls :
    \/ Started < MaxInvocations /\ WithdrawalRequest(i, "u1", TRUE, 30, FALSE)
    \/ WithdrawalDebit(i, FALSE)
    \/ \E id \in {"p3", "p4"} \ Notified :
         Started < MaxInvocations /\ WebhookRequest(i, "payment", id, FALSE)
    \/ WebhookRead(i, FALSE)
    \/ WebhookUpdate(i, FALSE)
    \/ \E userId \in {"u2", "u3"} \ Affiliated :
         Started < MaxInvocations /\ CommissionProduct(i, userId, "g2", FALSE)
    \/ CommissionUser(i, FALSE)
    \/ CommissionLevel1(i, FALSE)
    \/ CommissionReferrer(i, FALSE)
    \/ CommissionLevel2(i, FALSE)

SpecLedger == InitLedger /\ [][NextLedger]_vars

\* ------------------------------------------------------------------ claims

\* Amounts of money are doubles: two amounts are the same up to rounding when
\* they are less than 2^-30 apart (the sums and products of the amounts met
\* here round by less than 2^-40).
Tiny == <<0, 1, 0>>

SameAmount(x, y) == XLess(XSub(x, y), Tiny) /\ XLess(XSub(y, x), Tiny)

\* The withdrawals of user u that returned success.
Successes(u) ==
  {i \in Calls : wd[i].pc = "done" /\ wd[i].code = "ok" /\ wd[i].auth = u}

\* What they debited.
Debited(u) == XSum([i \in Calls |-> Num(wd[i].amount)], Successes(u))

\* The requests made so far for user u.
Requests(u) == {i \in Calls : wd[i].pc # "idle" /\ wd[i].auth = u}

\* They all ask for the amount w.
AllAsk(u, w) == \A i \in Requests(u) : wd[i].given /\ wd[i].amount = w

\* C1: for a starting balance B >= 0 and any number of withdrawal requests of
\* one amount w in [30, 5000] by the same user with a payout profile, under any
\* interleaving of their read and debit steps, at most floor(B / w) succeed,
\* the debits sum to at most B, and the balance is never negative.
C1_NoOverdraft ==
  \A u \in UserIds :
    users0[u].exists =>
      /\ XLeq(Num(0), users[u].balance)
      /\ XLeq(Debited(u), users0[u].balance)
      /\ \A i \in Requests(u) :
           LET w == wd[i].amount
           IN AllAsk(u, w) /\ w >= 30 /\ w <= 5000 =>
                XLeq(XTimes(Cardinality(Successes(u)), Num(w)), users0[u].balance)

\* A finished withdrawal whose caller is an existing user and whose amount is
\* within the bounds.
ValidRequest(c) ==
  /\ c.pc = "done" /\ c.auth # Undefined /\ c.given
  /\ c.amount >= 30 /\ c.amount <= 5000
  /\ c.pre[c.auth].exists

HasPayoutProfile(doc) ==
  doc.pixKey \notin {Undefined, ""} /\ doc.pixFullName \notin {Undefined, ""}

\* C5: for an authenticated existing user and an amount w in [30, 5000], a
\* withdrawal run in isolation succeeds exactly when balance >= w and the user
\* has a payout key and a holder name (the store answering its calls); a
\* success lowers the balance by exactly w, and any failure, a call the store
\* rejects included, leaves the collection as it was.
C5_WithdrawalInIsolation ==
  \A i \in Calls :
    ValidRequest(wd[i]) /\ Isolated(wd[i]) =>
      LET c == wd[i]
          before == c.pre[c.auth]
          funded == XLeq(Num(c.amount), before.balance) /\ HasPayoutProfile(before)
      IN /\ c.code = "ok" => funded
         /\ funded /\ c.fault = "" => c.code = "ok"
         /\ c.code = "ok" =>
              /\ XAdd(c.post[c.auth].balance, Num(c.amount)) = before.balance
              /\ c.post = [c.pre EXCEPT ![c.auth].balance = c.post[c.auth].balance]
         /\ c.code # "ok" => c.post = c.pre /\ c.own = 0

\* C5's case: a withdrawal of the whole balance has succeeded in isolation, and
\* another valid one, which the store answered, has been refused.
C5_Witness ==
  \E i, j \in Calls :
    /\ ValidRequest(wd[i]) /\ Isolated(wd[i]) /\ wd[i].code = "ok"
    /\ wd[i].pre[wd[i].auth].balance = Num(wd[i].amount)
    /\ wd[i].post[wd[i].auth].balance = Num(0)
    /\ ValidRequest(wd[j]) /\ wd[j].code = "failed-precondition"

\* The error each call the store answered must have ended with, by the first
\* check it fails.
ExpectedError(c) ==
  IF c.auth = Undefined THEN <<"unauthenticated", "E necessario estar autenticado.">>
  ELSE IF ~c.given \/ c.amount < 30 \/ c.amount > 5000
    THEN <<"invalid-argument", "Valor de levantamento invalido.">>
  ELSE IF ~c.pre[c.auth].exists THEN <<"not-found", "Utilizador nao encontrado.">>
  ELSE IF ~HasPayoutProfile(c.pre[c.auth])
    THEN <<"failed-precondition",
           "Dados PIX incompletos. Registe o nome completo e a chave PIX no seu perfil.">>
  ELSE IF XLess(c.pre[c.auth].balance, Num(c.amount))
    THEN <<"failed-precondition", "Saldo insuficiente.">>
  ELSE <<"ok", "">>

\* A step in which call i ends with an error.
FailsNow(i) == wd[i].pc # "done" /\ wd'[i].pc = "done" /\ wd'[i].code # "ok"

\* C6: every validation failure of a withdrawal ends with its typed error and
\* no write: no identity -> unauthenticated; amount absent, below 30 or above
\* 5000 -> invalid-argument, 30 and 5000 being accepted; no user document ->
\* not-found; no payout key or holder name -> failed-precondition; balance <
\* amount -> failed-precondition with another message. (A call the store
\* rejects is not a validation failure; it writes nothing either.)
C6_FailClosed ==
  /\ [](\A i \in Calls :
          wd[i].pc = "done" /\ wd[i].code # "ok" =>
            /\ wd[i].fault = "" => <<wd[i].code, wd[i].message>> = ExpectedError(wd[i])
            /\ wd[i].own = 0)
  /\ [](\A i \in Calls :
          wd[i].pc = "done" /\ wd[i].auth # Undefined /\ wd[i].given
            /\ wd[i].amount \in {30, 5000} => wd[i].code # "invalid-argument")
  /\ [][\A i \in Calls : FailsNow(i) => users' = users /\ commits' = commits]_vars

\* C6's case: the two failed-precondition failures have happened, one for a
\* missing payout profile and one for insufficient funds, with different
\* messages, and a call of the lowest accepted amount passed the amount check.
C6_Witness ==
  \E i, j \in Calls :
    /\ wd[i].pc = "done" /\ wd[j].pc = "done"
    /\ wd[i].code = "failed-precondition" /\ wd[j].code = "failed-precondition"
    /\ wd[i].message # wd[j].message
    /\ wd[i].amount = 30 /\ users = users0

\* The deliveries made so far.
Delivered == {i \in Calls : hook[i].pc # "idle"}

\* What the first confirmation of order id credits: the amount, and half of it
\* again when the user had not deposited and the amount is at least 200.
FirstCredit(id) ==
  LET a == Payments[id].transaction_amount
      u == Payments[id].external_reference
  IN IF ~users0[u].hasDeposited /\ a >= 200
       THEN XAdd(Num(a), XTimes(a, Point5))
       ELSE Num(a)

\* C2: after any number (>= 1) of deliveries of the notification of one
\* approved order, sequential or concurrent, the user's balance has risen by
\* exactly what the first delivery credits (amount + bonus), not a multiple.
C2_NoRecredit ==
  \A id \in PaymentIds :
    LET u == Payments[id].external_reference
    IN (/\ Payments[id].status = "approved" /\ users0[u].exists
        /\ \A i \in Delivered : hook[i].topic = "payment" /\ hook[i].id = id)
       => users[u].balance \in
            {users0[u].balance, FAdd(users0[u].balance, FirstCredit(id))}

\* The confirmations that have credited user u.
Credits(u) == {i \in Calls : hook[i].own = 1 /\ hook[i].uid = u}

\* C3: the first-deposit bonus is granted at most once per user: of the
\* confirmations of distinct approved orders of one user, under any
\* interleaving of their read and update steps, at most one credits a bonus;
\* and hasDeposited is true exactly once a confirmation has credited the user
\* (the flip comes with the credit).
C3_BonusOnce ==
  \A u \in UserIds :
    /\ \A i, j \in Credits(u) :
         hook[i].id # hook[j].id => hook[i].bonus = Num(0) \/ hook[j].bonus = Num(0)
    /\ users0[u].exists /\ ~users0[u].hasDeposited =>
         (users[u].hasDeposited <=> Credits(u) # {})

\* A delivery that ran in isolation and was acknowledged, for an approved order
\* whose externalReference is an existing user.
ConfirmedAlone(d) ==
  /\ d.pc = "done" /\ d.topic = "payment" /\ d.id \in PaymentIds
  /\ d.status = 200 /\ Isolated(d)
  /\ Payments[d.id].status = "approved"
  /\ Payments[d.id].transaction_amount \in 40..5000
  /\ d.pre[Payments[d.id].external_reference].exists

\* C4: for an approved order of amount a in [40, 5000] of an existing user, one
\* confirmation run in isolation raises the balance by exactly a + a/2 when
\* hasDeposited was false and a >= 200, by exactly a otherwise (the balance
\* after is the double sum of the balance before and that amount), leaves
\* hasDeposited true, and changes nothing else.
C4_DepositInIsolation ==
  \A i \in Calls :
    ConfirmedAlone(hook[i]) =>
      LET d == hook[i]
          a == Payments[d.id].transaction_amount
          u == Payments[d.id].external_reference
          credit == IF ~d.pre[u].hasDeposited /\ a >= 200
                      THEN XAdd(Num(a), XTimes(a, Point5))
                      ELSE Num(a)
      IN d.post = [d.pre EXCEPT ![u].balance = FAdd(d.pre[u].balance, credit),
                                ![u].hasDeposited = TRUE]

\* C4's case: an order of exactly 200 has been confirmed in isolation for a
\* user who had not deposited (a bonus of 100), and an order of at least 200
\* for a user who had (no bonus).
C4_Witness ==
  \E i, j \in Calls :
    /\ ConfirmedAlone(hook[i]) /\ hook[i].id = "p3"
    /\ ~hook[i].pre["u1"].hasDeposited
    /\ hook[i].post["u1"].balance = FAdd(hook[i].pre["u1"].balance, Num(300))
    /\ ConfirmedAlone(hook[j]) /\ hook[j].id = "p4"
    /\ hook[j].pre["u1"].hasDeposited
    /\ hook[j].post["u1"].balance = FAdd(hook[j].pre["u1"].balance, Num(5000))

\* The referrer of user u in ledger l: a user id, or Undefined when u has no
\* document or no referrer.
ReferrerOf(l, u) ==
  IF u \in UserIds /\ l[u].exists /\ l[u].referredBy \notin {Undefined, ""}
    THEN l[u].referredBy ELSE Undefined

\* Event e has read the users collection: its product exists and was read.
HasReadUsers(e) ==
  e.pc \notin {"idle", "user"} /\ e.productId \in ProductIds /\ e.fault # "product"

\* An event on an existing product that ran in isolation to its end, the store
\* answering its calls.
RanAlone(e) ==
  e.pc = "done" /\ Isolated(e) /\ e.productId \in ProductIds /\ e.fault = ""

Existing(l, u) == u \in UserIds /\ l[u].exists

\* C7: for an affiliation of user U to a product of price P, with U.referredBy
\* = R1 and R1.referredBy = R2, both existing: R1's earningsLevel1 rises by
\* exactly 0.20 P and R2's earningsLevel2 by exactly 0.05 P, and so do their
\* balances (R1 and R2 being two users), 0.20 P and 0.05 P being the doubles
\* P * 0.20 and P * 0.05 and the rise their double sum; if R1 has no referrer,
\* the level-1 credit to R1 is the only change.
C7_TwoLevels ==
  \A i \in Calls :
    LET e == comm[i]
        P == Products[e.productId].price
        R1 == ReferrerOf(e.pre, e.userId)
        R2 == ReferrerOf(e.pre, R1)
    IN RanAlone(e) /\ Existing(e.pre, R1) =>
         /\ e.post[R1].earningsLevel1 = FAdd(e.pre[R1].earningsLevel1, FMul(P, Point20))
         /\ Existing(e.pre, R2) =>
              /\ e.post[R2].earningsLevel2
                   = FAdd(e.pre[R2].earningsLevel2, FMul(P, Point05))
              /\ R1 # R2 =>
                   /\ e.post[R1].balance = FAdd(e.pre[R1].balance, FMul(P, Point20))
                   /\ e.post[R2].balance = FAdd(e.pre[R2].balance, FMul(P, Point05))
         /\ R2 = Undefined =>
              e.post = [e.pre EXCEPT ![R1].balance = FAdd(@, FMul(P, Point20)),
                                     ![R1].earningsLevel1 = FAdd(@, FMul(P, Point20))]

\* C7's case: an event on the product of price 3 has raised the referrer's
\* balance from 0.1 to 0.7000000000000001 and the earningsLevel2 of the
\* referrer's referrer to 0.15000000000000002, and an event on the product of
\* price 1000 has paid 200 to a referrer that has no referrer.
C7_Witness ==
  \E i, j \in Calls :
    /\ RanAlone(comm[i]) /\ comm[i].productId = "g2" /\ comm[i].userId = "u1"
    /\ comm[i].pre["u2"].balance = Point1
    /\ comm[i].post["u2"].balance = <<0, 751619276, 858993536>>
    /\ comm[i].post["u3"].earningsLevel2 = <<0, 161061273, 644245120>>
    /\ RanAlone(comm[j]) /\ comm[j].userId = "u3" /\ comm[j].paidL1
    /\ comm[j].productId = "g1"
    /\ ReferrerOf(comm[j].pre, "u4") = Undefined
    /\ comm[j].post["u4"].earningsLevel1 = Num(200)

\* The events made so far.
Created == {i \in Calls : comm[i].pc # "idle"}

\* C8: after onAffiliationCreated has run any number (>= 1) of times for one
\* (userId, productId), the referrer has been credited the level-1 commission
\* exactly once and the referrer's referrer the level-2 commission exactly once.
C8_Dedupe ==
  \A i \in Created :
    LET e == comm[i]
        P == Products[e.productId].price
        R1 == ReferrerOf(users0, e.userId)
        R2 == ReferrerOf(users0, R1)
    IN (/\ \A j \in Created : /\ comm[j].pc = "done" /\ comm[j].fault = ""
                               /\ comm[j].userId = e.userId
                               /\ comm[j].productId = e.productId
        /\ e.productId \in ProductIds /\ Existing(users0, R1))
       => /\ users[R1].earningsLevel1
               = FAdd(users0[R1].earningsLevel1, FMul(P, Point20))
          /\ Existing(users0, R2) =>
               users[R2].earningsLevel2
                 = FAdd(users0[R2].earningsLevel2, FMul(P, Point05))

\* What an event added to all balances together.
TotalCredited(e) ==
  XSum([u \in UserIds |-> XSub(e.post[u].balance, e.pre[u].balance)], UserIds)

\* A quarter of a whole price.
Quarter(P) == XTimes(P, <<0, 268435456, 0>>)

\* C9 as stated: one affiliation event changes the documents of at most U's
\* referrer and that referrer's referrer, whatever the length of the chain
\* above U: the document of U (when U is neither of the two) and of every
\* ancestor at three or more hops are as they were, and the event credits at
\* most 0.25 of the product's price in all.
C9_AtMostQuarter ==
  \A i \in Calls :
    comm[i].pc = "done" /\ Isolated(comm[i]) =>
      LET e == comm[i]
          R1 == ReferrerOf(e.pre, e.userId)
          R2 == ReferrerOf(e.pre, R1)
      IN IF HasReadUsers(e)
           THEN /\ \A u \in UserIds \ {R1, R2} : e.post[u] = e.pre[u]
                /\ e.userId \notin {R1, R2} => e.post[e.userId] = e.pre[e.userId]
                /\ XLeq(Num(0), TotalCredited(e))
                /\ XLeq(TotalCredited(e), Quarter(Products[e.productId].price))
           ELSE e.own = 0 /\ e.post = e.pre

\* C9, amended: as above, the event crediting at most 0.25 of the product's
\* price in all up to the rounding of the doubles (the double products
\* P * 0.20 and P * 0.05 and the double sums of the increments can exceed
\* 0.25 P by their rounding: 0.7500000000000001 for the price 3).
C9_TwoHopsOnly ==
  \A i \in Calls :
    comm[i].pc = "done" /\ Isolated(comm[i]) =>
      LET e == comm[i]
          R1 == ReferrerOf(e.pre, e.userId)
          R2 == ReferrerOf(e.pre, R1)
      IN IF HasReadUsers(e)
           THEN /\ \A u \in UserIds \ {R1, R2} : e.post[u] = e.pre[u]
                /\ e.userId \notin {R1, R2} => e.post[e.userId] = e.pre[e.userId]
                /\ XLeq(Num(0), TotalCredited(e))
                /\ XLess(TotalCredited(e),
                         XAdd(Quarter(Products[e.productId].price), Tiny))
           ELSE e.own = 0 /\ e.post = e.pre

\* C9's case: in the chain u1 -> u2 -> u3 -> u4 an event of u1 has paid both
\* levels, a quarter of the price in all, and u4, three hops above u1, exists.
C9_Witness ==
  \E i \in Calls :
    /\ RanAlone(comm[i]) /\ comm[i].userId = "u1"
    /\ comm[i].paidL1 /\ comm[i].paidL2
    /\ ReferrerOf(comm[i].pre, ReferrerOf(comm[i].pre, "u2")) = "u4"
    /\ comm[i].pre["u4"].exists /\ comm[i].post["u4"] = comm[i].pre["u4"]
    /\ SameAmount(TotalCredited(comm[i]), Quarter(Products[comm[i].productId].price))

\* A step in which delivery i is answered.
AnsweredNow(i) == hook[i].pc # "done" /\ hook'[i].pc = "done"

\* The no-op paths of a delivery: a topic other than payment; an order the
\* gateway returned that is not approved; an approved order whose
\* externalReference has no user document.
NoOpPath(d) ==
  /\ d.pc = "done"
  /\ \/ d.topic # "payment"
     \/ /\ d.fault = "" /\ d.id \in PaymentIds
        /\ \/ Payments[d.id].status # "approved"
           \/ ~d.pre[Payments[d.id].external_reference].exists

\* C11: a delivery on a no-op path is acknowledged (200) and writes nothing: a
\* topic other than payment, without a gateway lookup; an order whose status
\* is not approved; an approved order of a user with no document, and no
\* document is created for that user.
C11_NoOpPaths ==
  /\ [](\A i \in Calls :
          NoOpPath(hook[i]) =>
            /\ hook[i].status = 200 /\ hook[i].own = 0
            /\ Isolated(hook[i]) => hook[i].post = hook[i].pre
            /\ hook[i].topic # "payment" =>
                 hook[i].lookups = 0 /\ hook[i].body = "Not a payment topic"
            /\ hook[i].topic = "payment" => hook[i].lookups = 1)
  /\ [](\A u \in UserIds : users[u].exists = users0[u].exists)
  /\ [][\A i \in Calls :
          AnsweredNow(i) /\ NoOpPath(hook'[i]) =>
            users' = users /\ commits' = commits]_vars

\* C11's case: a pending order and an approved order of a user with no document
\* have both been acknowledged, the collection as it started.
C11_Witness ==
  \E i, j \in Calls :
    /\ NoOpPath(hook[i]) /\ hook[i].topic = "payment" /\ hook[i].id = "p5"
    /\ NoOpPath(hook[j]) /\ hook[j].topic = "payment" /\ hook[j].id = "p6"
    /\ hook[i].status = 200 /\ hook[j].status = 200
    /\ ~users["u5"].exists /\ users = users0

\* C12: when the gateway lookup or the ledger write fails (or the read of the
\* user), the delivery is answered with an error (500, not the
\* acknowledgement) and the user's balance and hasDeposited are as before the
\* notification.
C12_RetryableFailure ==
  /\ [](\A i \in Calls :
          hook[i].pc = "done" /\ hook[i].fault # "" =>
            /\ hook[i].status = 500 /\ hook[i].body # "OK"
            /\ hook[i].own = 0
            /\ Isolated(hook[i]) => hook[i].post = hook[i].pre)
  /\ [][\A i \in Calls :
          AnsweredNow(i) /\ hook'[i].fault # "" =>
            users' = users /\ commits' = commits]_vars

\* C12's case: one delivery has failed at the gateway lookup and another at the
\* update of an approved order's user, both answered 500.
C12_Witness ==
  \E i, j \in Calls :
    /\ hook[i].pc = "done" /\ hook[i].fault = "lookup" /\ hook[i].id \in PaymentIds
    /\ hook[j].pc = "done" /\ hook[j].fault = "update" /\ hook[j].uid = "u1"
    /\ hook[i].status = 500 /\ hook[j].status = 500
    /\ users = users0

\* The level-2 update of event e failed after its level-1 update was committed.
Level2Failed(e) == e.pc = "done" /\ e.paidL1 /\ e.hops = 2 /\ e.error

\* C13: each level's update is its own write: when the level-2 update fails
\* after the level-1 update committed, the level-1 credit (balance and
\* earningsLevel1) stays, the grand-referrer is as before, and the trigger
\* ends (the error logged, none raised) with that one write, no second attempt
\* made.
C13_IndependentLevels ==
  /\ [](\A i \in Calls :
          Level2Failed(comm[i]) =>
            LET e == comm[i]
                c == FMul(e.productPrice, Point20)
            IN /\ ~e.paidL2 /\ e.own = 1 /\ ~e.threw
               /\ Isolated(e) =>
                    e.post = [e.pre EXCEPT
                                ![e.referrerId].balance = FAdd(@, c),
                                ![e.referrerId].earningsLevel1 = FAdd(@, c)])
  /\ [][\A i \in Calls :
          comm[i].pc = "level2" /\ Level2Failed(comm'[i]) =>
            users' = users /\ commits' = commits]_vars

\* C13's case: the store rejected the level-2 update of an existing
\* grand-referrer, and the referrer keeps the level-1 credit.
C13_Witness ==
  \E i \in Calls :
    /\ Level2Failed(comm[i]) /\ comm[i].fault = "level2" /\ Isolated(comm[i])
    /\ comm[i].userId = "u1" /\ comm[i].referrerId = "u2"
    /\ comm[i].pre[comm[i].grandReferrerId].exists
    /\ users["u2"].earningsLevel1 = FMul(comm[i].productPrice, Point20)
    /\ users[comm[i].grandReferrerId] = users0[comm[i].grandReferrerId]

\* The deposit confirmations that credited user u, and what they credited.
Confirmations(u) == {i \in Calls : hook[i].own = 1 /\ hook[i].uid = u}

Deposited(u) == XSum([i \in Calls |-> hook[i].totalAmount], Confirmations(u))

\* The events whose level-1 (level-2) update credited user u, and the amounts.
PaidLevel1(u) == {i \in Calls : comm[i].paidL1 /\ comm[i].referrerId = u}

PaidLevel2(u) == {i \in Calls : comm[i].paidL2 /\ comm[i].grandReferrerId = u}

EarnedLevel1(u) == XSum([i \in Calls |-> comm[i].commissionL1], PaidLevel1(u))

EarnedLevel2(u) == XSum([i \in Calls |-> comm[i].commissionL2], PaidLevel2(u))

\* C14 as stated: credits and debits are lost-update free: under every
\* interleaving of deposit confirmations of distinct orders, commission
\* credits and successful withdrawals against one user, the balance is the
\* initial balance plus every amount credited minus every amount debited by
\* the writes committed so far, whatever the order in which they committed.
C14_ExactBalance ==
  \A u \in UserIds :
    users[u].balance
      = XSub(XAdd(XAdd(XAdd(users0[u].balance, Deposited(u)), EarnedLevel1(u)),
                  EarnedLevel2(u)),
             Debited(u))

\* C14, amended: as above, the balance being that sum up to the rounding of
\* the doubles: every increment is applied, none is lost, and each is a double
\* addition, which rounds, so that the order of the commits can change the
\* last digits of the balance.
C14_LostUpdateFree ==
  \A u \in UserIds :
    SameAmount(users[u].balance,
               XSub(XAdd(XAdd(XAdd(users0[u].balance, Deposited(u)),
                              EarnedLevel1(u)),
                         EarnedLevel2(u)),
                    Debited(u)))

\* C14's case: a withdrawal of u1 succeeded although another handler's write
\* was committed between its read and its debit, and a deposit and a
\* commission were credited to u1 as well.
C14_Witness ==
  \E i, j, k \in Calls :
    /\ i \in Successes("u1") /\ ~Isolated(wd[i])
    /\ j \in Confirmations("u1") /\ hook[j].pc = "done"
    /\ k \in PaidLevel1("u1") \cup PaidLevel2("u1") /\ comm[k].pc = "done"

\* C15: hasDeposited is monotonic and is set by every approved deposit,
\* whatever its amount: it never goes back to false, it is true once a
\* confirmation has credited the user, and a confirmation that credits the
\* user after another one has done so credits no bonus.
C15_HasDepositedMonotonic ==
  /\ [][\A u \in UserIds : users[u].hasDeposited => users'[u].hasDeposited]_vars
  /\ [](\A u \in UserIds : Confirmations(u) # {} => users[u].hasDeposited)
  /\ [](\A u \in UserIds : \A i, j \in Confirmations(u) :
          hook[i].c1 < hook[j].c1 => hook[j].bonus = Num(0))

\* Event e ended, the store answering its calls, on one of the three early
\* returns: its product has no document, its user has no document, or its user
\* has no referrer.
NothingToPay(e) ==
  /\ e.pc = "done" /\ e.fault = ""
  /\ IF e.productId \notin ProductIds THEN TRUE
     ELSE IF ~e.pre[e.userId].exists THEN TRUE
     ELSE ~Truthy(e.pre[e.userId].referredBy)

\* C16: the trigger is a clean no-op when the product does not exist, when the
\* affiliating user does not exist, or when that user has no referrer: it
\* writes nothing (no balance, no earnings counter changes), logs no error,
\* raises none and returns.
C16_CleanNoOp ==
  /\ [](\A i \in Calls :
          NothingToPay(comm[i]) =>
            LET e == comm[i]
            IN /\ ~e.error /\ ~e.threw /\ e.own = 0 /\ ~e.paidL1 /\ ~e.paidL2
               /\ e.post = e.pre /\ e.c1 = e.c0)
  /\ [][\A i \in Calls :
          comm[i].pc # "done" /\ NothingToPay(comm'[i]) =>
            users' = users /\ commits' = commits]_vars

\* C16's case: an event for a product without a document and an event of a
\* user whose referredBy is empty have both returned, the collection as it
\* started.
C16_Witness ==
  \E i, j \in Calls :
    /\ NothingToPay(comm[i]) /\ comm[i].productId \notin ProductIds
    /\ NothingToPay(comm[j]) /\ comm[j].productId \in ProductIds
    /\ comm[j].pre[comm[j].userId].exists
    /\ comm[j].pre[comm[j].userId].referredBy = ""
    /\ users = users0

\* The level-1 update of event e was rejected.
Level1Failed(e) == e.pc = "done" /\ e.error /\ ~e.paidL1

\* C17: level 2 is paid only after level 1: the level-2 update of an event is
\* made only when the level-1 update of the same event is already committed,
\* and an event whose level-1 update fails credits nobody and ends there.
C17_Level2AfterLevel1 ==
  /\ [](\A i \in Calls :
          /\ comm[i].paidL2 => comm[i].paidL1
          /\ Level1Failed(comm[i]) =>
               /\ ~comm[i].paidL2 /\ comm[i].own = 0 /\ comm[i].hops = 1
               /\ Isolated(comm[i]) => comm[i].post = comm[i].pre)
  /\ [][\A i \in Calls :
          /\ ~comm[i].paidL2 /\ comm'[i].paidL2 =>
               /\ comm[i].paidL1 /\ comm[i].own = 1
               /\ XLeq(XAdd(users0[comm[i].referrerId].earningsLevel1,
                            comm[i].commissionL1),
                       users[comm[i].referrerId].earningsLevel1)
          /\ comm[i].pc = "level1" /\ Level1Failed(comm'[i]) =>
               users' = users /\ commits' = commits
          /\ Level1Failed(comm[i]) => comm'[i] = comm[i]]_vars

\* C17's case: the store rejected the level-1 update of an event whose referrer
\* and grand-referrer both exist, and another event was paid on both levels.
C17_Witness ==
  \E i, j \in Calls :
    /\ Level1Failed(comm[i]) /\ comm[i].fault = "level1"
    /\ Existing(users, ReferrerOf(users, comm[i].referrerId))
    /\ comm[j].pc = "done" /\ comm[j].paidL1 /\ comm[j].paidL2

\* What user u has been credited in commissions: the rise of the balance that
\* is neither a deposit nor a withdrawal.
CommissionInBalance(u) ==
  XAdd(XSub(XSub(users[u].balance, users0[u].balance), Deposited(u)), Debited(u))

\* The commission amounts of the events.
CommissionAmounts ==
  {comm[i].commissionL1 : i \in Calls} \cup {comm[i].commissionL2 : i \in Calls}

\* C18 as stated: for every user, in every state, the earnings counters record
\* exactly the commissions added to the balance: every write that changes a
\* counter adds one amount to that counter and to the balance, the sum of the
\* two counters is the commission part of the balance, and no step of a
\* deposit confirmation or of a withdrawal changes a counter.
C18_ExactEarnings ==
  /\ [](\A u \in UserIds :
          XAdd(XSub(users[u].earningsLevel1, users0[u].earningsLevel1),
               XSub(users[u].earningsLevel2, users0[u].earningsLevel2))
            = CommissionInBalance(u))
  /\ [][\A u \in UserIds :
          users'[u].earningsLevel1 # users[u].earningsLevel1
            \/ users'[u].earningsLevel2 # users[u].earningsLevel2 =>
            \E c \in CommissionAmounts :
              /\ users'[u].balance = FAdd(users[u].balance, c)
              /\ \/ users'[u].earningsLevel1 = FAdd(users[u].earningsLevel1, c)
                 \/ users'[u].earningsLevel2 = FAdd(users[u].earningsLevel2, c)]_vars
  /\ [][wd' # wd \/ hook' # hook =>
          \A u \in UserIds :
            /\ users'[u].earningsLevel1 = users[u].earningsLevel1
            /\ users'[u].earningsLevel2 = users[u].earningsLevel2]_vars

\* C18, amended: as above, the sum of the two counters being the commission
\* part of the balance up to the rounding of the doubles: earningsLevel1 has
\* risen by the level-1 commissions paid to the user and earningsLevel2 by the
\* level-2 ones, each counter and the balance rounding its own additions.
C18_EarningsMatchBalance ==
  /\ [](\A u \in UserIds :
          /\ SameAmount(users[u].earningsLevel1,
                        XAdd(users0[u].earningsLevel1, EarnedLevel1(u)))
          /\ SameAmount(users[u].earningsLevel2,
                        XAdd(users0[u].earningsLevel2, EarnedLevel2(u)))
          /\ SameAmount(XAdd(XSub(users[u].earningsLevel1, users0[u].earningsLevel1),
                             XSub(users[u].earningsLevel2, users0[u].earningsLevel2)),
                        CommissionInBalance(u)))
  /\ [][\A u \in UserIds :
          users'[u].earningsLevel1 # users[u].earningsLevel1
            \/ users'[u].earningsLevel2 # users[u].earningsLevel2 =>
            \E c \in CommissionAmounts :
              /\ users'[u].balance = FAdd(users[u].balance, c)
              /\ \/ /\ users'[u].earningsLevel1 = FAdd(users[u].earningsLevel1, c)
                    /\ users'[u].earningsLevel2 = users[u].earningsLevel2
                 \/ /\ users'[u].earningsLevel2 = FAdd(users[u].earningsLevel2, c)
                    /\ users'[u].earningsLevel1 = users[u].earningsLevel1]_vars
  /\ [][wd' # wd \/ hook' # hook =>
          \A u \in UserIds :
            /\ users'[u].earningsLevel1 = users[u].earningsLevel1
            /\ users'[u].earningsLevel2 = users[u].earningsLevel2]_vars

\* C18's case: u1 has earned a level-2 commission, and a deposit was credited
\* to u1 and a withdrawal debited from u1 as well.
C18_Witness ==
  /\ XLess(Num(0), users["u1"].earningsLevel2)
  /\ SameAmount(users["u1"].earningsLevel2, CommissionInBalance("u1"))
  /\ Confirmations("u1") # {}
  /\ Successes("u1") # {}

\* The place of a step in the trigger.
Rank(pc) ==
  CASE pc = "idle" -> 0 [] pc = "user" -> 1 [] pc = "level1" -> 2
    [] pc = "referrer" -> 3 [] pc = "level2" -> 4 [] pc = "done" -> 5

\* C19: the trigger terminates after at most two writes and at most two
\* referral hops on every referral graph, cyclic ones included: an event makes
\* at most two updates and reads referredBy at most twice, it only moves
\* forward (the product, the user, the level-1 update, the referrer, the
\* level-2 update, the return), and an event that has started returns: from
\* some point on every event is either not started or has returned.
C19_TerminatesInTwoHops ==
  /\ [](\A i \in Calls : comm[i].own <= 2 /\ comm[i].hops <= 2)
  /\ [][\A i \in Calls :
          /\ comm[i].pc = "done" => comm'[i] = comm[i]
          /\ comm'[i] # comm[i] => Rank(comm'[i].pc) > Rank(comm[i].pc)]_vars
  /\ \A i \in Calls : <>[](comm[i].pc \in {"idle", "done"})

\* C19's case: on the cyclic graph, the event of u1 (its own referrer) and the
\* event of u3 (u2 and u3 refer each other) have returned after two writes and
\* two hops each.
C19_Witness ==
  \E i, j \in Calls :
    /\ comm[i].pc = "done" /\ comm[i].userId = "u1" /\ comm[i].referrerId = "u1"
    /\ comm[i].grandReferrerId = "u1" /\ comm[i].own = 2 /\ comm[i].hops = 2
    /\ comm[j].pc = "done" /\ comm[j].userId = "u3" /\ comm[j].referrerId = "u2"
    /\ comm[j].grandReferrerId = "u3" /\ comm[j].own = 2 /\ comm[j].hops = 2

\* Event e is of an existing user and product, and the user's referredBy names
\* an id without a document.
Level1Dangling(e) ==
  /\ e.pc = "done" /\ e.productId \in ProductIds /\ e.fault = ""
  /\ e.pre[e.userId].exists
  /\ LET r == e.pre[e.userId].referredBy
     IN Truthy(r) /\ ~e.pre[r].exists

\* The referrer of e's user exists and was credited, and the referrer's
\* referredBy names an id without a document.
Level2Dangling(e) ==
  /\ e.pc = "done" /\ e.paidL1 /\ e.fault = ""
  /\ LET g == e.pre[e.referrerId].referredBy
     IN Truthy(g) /\ ~e.pre[g].exists

\* C20: a referredBy that names an id without a document makes the update of
\* that level fail without creating the document: no document of the id
\* exists afterwards, nothing is credited at that level or a later one, the
\* level-1 credit made before a failed level 2 remains, and the trigger logs
\* the error, raises none and returns.
C20_DanglingReferrer ==
  /\ [](\A u \in UserIds : ~users0[u].exists => users[u] = users0[u])
  /\ [](\A i \in Calls :
          LET e == comm[i]
          IN /\ Level1Dangling(e) =>
                  /\ ~e.paidL1 /\ ~e.paidL2 /\ e.own = 0 /\ e.error /\ ~e.threw
                  /\ Isolated(e) => e.post = e.pre
             /\ Level2Dangling(e) =>
                  /\ ~e.paidL2 /\ e.own = 1 /\ e.error /\ ~e.threw
                  /\ XLeq(XAdd(users0[e.referrerId].earningsLevel1, e.commissionL1),
                          users[e.referrerId].earningsLevel1)
                  /\ Isolated(e) =>
                       e.post = [e.pre EXCEPT
                                   ![e.referrerId].balance = FAdd(@, e.commissionL1),
                                   ![e.referrerId].earningsLevel1 =
                                      FAdd(@, e.commissionL1)])
  /\ [][\A i \in Calls :
          comm[i].pc # "done"
            /\ (Level1Dangling(comm'[i]) \/ Level2Dangling(comm'[i])) =>
              users' = users /\ commits' = commits]_vars

\* C20's case: in the graph u1 -> u2 -> u5 and u3 -> u5, u5 without a
\* document, the event of u3 has failed at level 1 and the event of u1 has
\* credited u2 and failed at level 2.
C20_Witness ==
  \E i, j \in Calls :
    /\ Level1Dangling(comm[i]) /\ comm[i].userId = "u3" /\ comm[i].referrerId = "u5"
    /\ Level2Dangling(comm[j]) /\ comm[j].userId = "u1" /\ comm[j].grandReferrerId = "u5"
    /\ users["u2"].earningsLevel1 = comm[j].commissionL1
    /\ ~users["u5"].exists

====
